---- MODULE Spec2Model ----
(***************************************************************************)
(* The radio/timer scheduling engine of the nRF51 BLE firmware             *)
(* (src/src/main.rs): the RTFM application with its two interrupt tasks    *)
(* RADIO and TIMER0, the TIMER0 peripheral they reprogram through          *)
(* cfg_timer, and the NVIC that dispatches them.                           *)
(*                                                                         *)
(* Time is counted in timer ticks (1 MHz, one tick = 1 microsecond).       *)
(* Software takes an unknown number of ticks, so the hardware actions      *)
(* (Tick, Compare, RadioComplete) interleave freely with the handler       *)
(* steps.  cfg_timer is one step: a compare event that falls between two   *)
(* of its register writes leaves the same state as one that falls just     *)
(* before the call (interrupt queued, event flag acknowledged).            *)
(***************************************************************************)
EXTENDS Integers, Sequences, FiniteSets, TLC

VARIABLES
    boot,            \* "reset" | "init" (after cfg_timer in init, blocking on TEMP) | "run"
    cc0,             \* TIMER0.CC[0]
    counter,         \* TIMER0 internal counter
    running,         \* TIMER0 started and not stopped
    events_compare0, \* TIMER0.EVENTS_COMPARE[0]
    events_radio,    \* the RADIO peripheral's interrupt source: "none", or what has completed
    radioOp,         \* what the radio is doing: "off" | "tx_adv" | "rx" | "tx_rsp"
    pending,         \* NVIC pending bits
    stack,           \* active interrupt handlers, innermost first
    pc,              \* position of each handler: "inactive" | "entry" | "cfg"
    ret,             \* the Option<Duration> the handler got from Baseband
    halted,          \* panic_halt's endless loop has been entered
    advCount,        \* LinkLayer's advertising event counter
    arg,             \* history: argument of the latest cfg_timer call
    lastReq,         \* history: argument of the latest cfg_timer call that returned
    elapsed,         \* history: ticks the timer ran since the latest cfg_timer(Some(_))
    pendReprog,      \* history: TIMER0 is queued and cfg_timer returned since its compare event
    pendTie,         \* history: TIMER0 was queued when the RADIO handler was dispatched
    runSpurious,     \* history: pendReprog of the interrupt the TIMER0 handler last took
    runTie,          \* history: pendTie of the interrupt the TIMER0 handler last took
    genuine,         \* history: update() calls made for a deadline that had elapsed
    firstReq,        \* history: argument of the first cfg_timer call since reset
    updated,         \* history: Baseband.update() has been called
    radioKept,       \* history: the RADIO handler has returned without calling cfg_timer
                     \*          since the latest cfg_timer call
    fired            \* history: compare events since the latest cfg_timer(Some(_))

vars == <<boot, cc0, counter, running, events_compare0, events_radio, radioOp,
          pending, stack, pc, ret, halted, advCount, arg, lastReq, elapsed,
          pendReprog, pendTie, runSpurious, runTie, genuine, firstReq, updated,
          radioKept, fired>>

timerRegs == <<cc0, counter, running, events_compare0>>
history == <<arg, lastReq, elapsed, pendReprog, pendTie, runSpurious, runTie, genuine,
             firstReq, updated, radioKept, fired>>

(***************************************************************************)
(* Bounds of the model.                                                    *)
(***************************************************************************)
\* Tick steps are taken one by one up to this counter value; beyond it time
\* passes in one step up to the compare value.
MaxCount == 2
\* The advertising event counter is kept modulo AdvMod.
AdvMod == 3

(***************************************************************************)
(* Machine integers.  u32::MAX is beyond TLC's integers, so a number is    *)
(* kept as two digits in base 1_000_000: B(h, l) is h * 1_000_000 + l.     *)
(* This is exact, and it is the base of the code's own conversion          *)
(* secs * 1_000_000 + subsec_micros.                                       *)
(***************************************************************************)
Mega == 1000000
NanosPerMicro == 1000
MillisPerSec == 1000

B(h, l) == [hi |-> h, lo |-> l]
Zero == B(0, 0)
Small(n) == B(n \div Mega, n % Mega)
BAdd(a, b) == B(a.hi + b.hi + ((a.lo + b.lo) \div Mega), (a.lo + b.lo) % Mega)
BLt(a, b) == a.hi < b.hi \/ (a.hi = b.hi /\ a.lo < b.lo)
BLe(a, b) == a = b \/ BLt(a, b)
\* a - b for a >= b
BSub(a, b) ==
    IF a.lo >= b.lo THEN B(a.hi - b.hi, a.lo - b.lo)
    ELSE B(a.hi - b.hi - 1, a.lo + Mega - b.lo)

U32_MAX == B(4294, 967295)             \* core::u32::MAX = 2^32 - 1
Two32 == B(4294, 967296)               \* 2^32

\* u32 arithmetic, wrapping at 2^32 (operands below 2^32).  An operand is
\* evaluated once: it is bound as the element of a one-element set.
Wrap32(s) == IF BLt(s, Two32) THEN s ELSE BSub(s, Two32)
Add32(a, b) == CHOOSE r \in {Wrap32(BAdd(x, y)) : x \in {a}, y \in {b}} : TRUE
Sub32(a, b) ==
    CHOOSE r \in {IF BLt(x, y) THEN BSub(BAdd(x, Two32), y) ELSE BSub(x, y) :
                     x \in {a}, y \in {b}} : TRUE
\* a * 10 and a * 1_000_000 in u32, by doubling and adding.
Mul32By5(a) == Add32(Add32(Add32(a, a), Add32(a, a)), a)
Mul32By10(a) == CHOOSE r \in {Add32(Mul32By5(x), Mul32By5(x)) : x \in {a}} : TRUE
Mul32ByMega(a) == Mul32By10(Mul32By10(Mul32By10(Mul32By10(Mul32By10(Mul32By10(a))))))

(***************************************************************************)
(* core::time::Duration and Option<Duration>.  The u64 seconds are         *)
(* secs_hi * 2^32 + secs_lo, so that the cast `as u32` is secs_lo.         *)
(***************************************************************************)
Dur(q, s, n) == [secs_hi |-> q, secs_lo |-> s, nanos |-> n]
from_millis(ms) == Dur(0, Small(ms \div MillisPerSec), (ms % MillisPerSec) * Mega)
from_micros(u) == Dur(0, Small(u \div Mega), (u % Mega) * NanosPerMicro)
subsec_micros(d) == d.nanos \div NanosPerMicro
as_secs_as_u32(d) == d.secs_lo

None == [tag |-> "None", val |-> Dur(0, Small(0), 0)]
\* History only: cfg_timer has not been called yet.
NoCall == [tag |-> "NoCall", val |-> Dur(0, Small(0), 0)]
Some(d) == [tag |-> "Some", val |-> d]

(***************************************************************************)
(* cfg_timer.                                                              *)
(***************************************************************************)
\* ((u32::MAX - duration.subsec_micros()) / 1_000_000) as u64
SecsLimit(d) == BSub(U32_MAX, Small(subsec_micros(d))).hi

\* The precondition asserted before any register is written:
\* duration.as_secs() < SecsLimit, compared as u64.
OverflowCheckTruncated(d) ==
    BLt(d.secs_lo, Small(SecsLimit(d)))

OverflowCheck(d) ==
    d.secs_hi = 0 /\ BLt(d.secs_lo, Small(SecsLimit(d)))

\* The compare value: (duration.as_secs() as u32) * 1_000_000 + subsec_micros, in u32.
Micros(d) == Add32(Mul32ByMega(as_secs_as_u32(d)), Small(subsec_micros(d)))

\* A timer is [cc0, counter, running, event]; the result adds panic.
Regs(c, n, r, e, p) == [cc0 |-> c, counter |-> n, running |-> r, event |-> e, panic |-> p]

cfg_timer_no_clear(t, duration) ==
    IF duration.tag = "Some"
    THEN IF ~OverflowCheck(duration.val)
         THEN Regs(t.cc0, t.counter, t.running, t.event, TRUE)
         ELSE Regs(Micros(duration.val), t.counter, TRUE, FALSE, FALSE)
    ELSE Regs(t.cc0, Zero, FALSE, FALSE, FALSE)

cfg_timer_write_first(t, duration) ==
    IF duration.tag = "Some"
    THEN IF ~OverflowCheck(duration.val)
         THEN Regs(Micros(duration.val), t.counter, t.running, t.event, TRUE)
         ELSE Regs(Micros(duration.val), Zero, TRUE, FALSE, FALSE)
    ELSE Regs(t.cc0, Zero, FALSE, FALSE, FALSE)

cfg_timer_no_stop(t, duration) ==
    IF duration.tag = "Some"
    THEN IF ~OverflowCheck(duration.val)
         THEN Regs(t.cc0, t.counter, t.running, t.event, TRUE)
         ELSE Regs(Micros(duration.val), Zero, TRUE, FALSE, FALSE)
    ELSE Regs(t.cc0, Zero, t.running, FALSE, FALSE)

cfg_timer_no_start(t, duration) ==
    IF duration.tag = "Some"
    THEN IF ~OverflowCheck(duration.val)
         THEN Regs(t.cc0, t.counter, t.running, t.event, TRUE)
         ELSE Regs(Micros(duration.val), Zero, t.running, FALSE, FALSE)
    ELSE Regs(t.cc0, Zero, FALSE, FALSE, FALSE)

cfg_timer_no_ack(t, duration) ==
    IF duration.tag = "Some"
    THEN IF ~OverflowCheck(duration.val)
         THEN Regs(t.cc0, t.counter, t.running, t.event, TRUE)
         ELSE Regs(Micros(duration.val), Zero, TRUE, t.event, FALSE)
    ELSE Regs(t.cc0, Zero, FALSE, t.event, FALSE)

cfg_timer_no_cc(t, duration) ==
    IF duration.tag = "Some"
    THEN IF ~OverflowCheck(duration.val)
         THEN Regs(t.cc0, t.counter, t.running, t.event, TRUE)
         ELSE Regs(t.cc0, Zero, TRUE, FALSE, FALSE)
    ELSE Regs(t.cc0, Zero, FALSE, FALSE, FALSE)

cfg_timer(t, duration) ==
    IF duration.tag = "Some"
    THEN IF ~OverflowCheck(duration.val)
         THEN \* assert! fails: nothing has been written yet
              Regs(t.cc0, t.counter, t.running, t.event, TRUE)
         ELSE \* cc[0] := us; events_compare[0].reset(); tasks_clear; tasks_start
              Regs(Micros(duration.val), Zero, TRUE, FALSE, FALSE)
    ELSE \* tasks_stop; tasks_clear; events_compare[0].reset()
         Regs(t.cc0, Zero, FALSE, FALSE, FALSE)

Timer == Regs(cc0, counter, running, events_compare0, FALSE)

(***************************************************************************)
(* The interrupt controller and the two tasks of app!.                     *)
(***************************************************************************)
RADIO == "RADIO"
TIMER0 == "TIMER0"
IRQs == {RADIO, TIMER0}

\* Exception numbers of the nrf51 device: RADIO is interrupt 1, TIMER0 is 8.
IrqNumberSwapped(irq) == IF irq = RADIO THEN 8 ELSE 1

IrqNumber(irq) == IF irq = RADIO THEN 1 ELSE 8

\* app! gives neither task a priority: both run at the default, 1.
PriorityRadioHigher(irq) == IF irq = RADIO THEN 2 ELSE 1

Priority(irq) == 1

CurrentPriority == IF stack = <<>> THEN 0 ELSE Priority(Head(stack))

Runnable(irq) == irq \in pending /\ Priority(irq) > CurrentPriority

\* The NVIC takes the runnable interrupt of highest priority, and of these the
\* one with the lowest exception number.
Selected(irq) ==
    /\ Runnable(irq)
    /\ \A o \in IRQs :
          Runnable(o) =>
             \/ Priority(o) < Priority(irq)
             \/ Priority(o) = Priority(irq) /\ IrqNumber(irq) <= IrqNumber(o)

Executing(irq) == stack # <<>> /\ Head(stack) = irq /\ ~halted

\* The interrupt line of a task, sampled when its handler returns.
Line(irq, evTimer, evRadio) == IF irq = TIMER0 THEN evTimer ELSE evRadio # "none"

(***************************************************************************)
(* The link layer's use of the radio during one advertising event: the     *)
(* advertising PDU is sent, the receiver may be armed for a response       *)
(* window, and a request received in it may be answered.                   *)
(***************************************************************************)
AfterRadioEvent(done) ==
    CASE done = "tx_adv" -> {"rx", "off"}
      [] done = "rx"     -> {"tx_rsp", "off"}
      [] OTHER           -> {"off"}

(***************************************************************************)
(* Deadlines.                                                              *)
(***************************************************************************)
InitTimeoutIsInterval == from_millis(100)

InitTimeout == from_millis(1)          \* init's first deadline
AdvInterval == from_millis(100)        \* start_advertise's interval
ShortTimeout == from_micros(2)         \* a deadline shorter than a handler run
RxWindow == from_micros(3)             \* a receive window
TooLong == Dur(0, Small(4295), 0)               \* a deadline the 32-bit counter cannot hold

\* What Baseband may hand back, given only its type Option<Duration>.
AnyResult == {None, Some(ShortTimeout), Some(AdvInterval), Some(TooLong)}

\* What the link layer of the design hands back.
UpdateResult == {Some(AdvInterval)}
InterruptResult == {None, Some(RxWindow)}

(***************************************************************************)
(* Initial state: reset values of the peripherals; init has not run.       *)
(***************************************************************************)
Init ==
    /\ boot = "reset"
    /\ cc0 = Zero /\ counter = Zero /\ running = FALSE /\ events_compare0 = FALSE
    /\ events_radio = "none" /\ radioOp = "off"
    /\ pending = {} /\ stack = <<>>
    /\ pc = [i \in IRQs |-> "inactive"]
    /\ ret = [i \in IRQs |-> None]
    /\ halted = FALSE
    /\ advCount = 0
    /\ arg = None /\ lastReq = None /\ elapsed = Zero
    /\ pendReprog = FALSE /\ pendTie = FALSE
    /\ runSpurious = FALSE /\ runTie = FALSE /\ genuine = 0
    /\ firstReq = NoCall /\ updated = FALSE /\ radioKept = FALSE /\ fired = 0

(***************************************************************************)
(* Hardware.                                                               *)
(***************************************************************************)
\* Ticks until the counter next equals CC[0] (the counter wraps at 2^32).
ToCompare == IF cc0 = counter THEN Two32 ELSE Sub32(cc0, counter)

\* One microsecond passes without the counter reaching CC[0].
Tick ==
    /\ running
    /\ BLt(Small(1), ToCompare)
    /\ BLt(counter, Small(MaxCount))
    /\ counter' = Add32(counter, Small(1))
    /\ elapsed' = BAdd(elapsed, Small(1))
    /\ UNCHANGED <<boot, cc0, running, events_compare0, events_radio, radioOp,
                   pending, stack, pc, ret, halted, advCount, arg, lastReq,
                   pendReprog, pendTie, runSpurious, runTie, genuine,
                   firstReq, updated, radioKept, fired>>

\* The compare event without the COMPARE0->STOP shortcut: the timer counts on.
Compare_no_stop ==
    /\ running
    /\ fired < 2
    /\ events_compare0' = TRUE
    /\ counter' = Zero
    /\ running' = running
    /\ pending' = pending \cup {TIMER0}
    /\ elapsed' = BAdd(elapsed, ToCompare)
    /\ pendReprog' = FALSE
    /\ pendTie' = FALSE
    /\ fired' = fired + 1
    /\ UNCHANGED <<boot, cc0, events_radio, radioOp, stack, pc, ret, halted,
                   advCount, arg, lastReq, runSpurious, runTie, genuine,
                   firstReq, updated, radioKept>>

\* The counter reaches CC[0]: EVENTS_COMPARE[0] is set, the shortcuts
\* COMPARE0->CLEAR and COMPARE0->STOP act, and with INTENSET.COMPARE0 the
\* interrupt is queued in the NVIC, where it stays until the handler is entered.
Compare ==
    /\ running
    /\ events_compare0' = TRUE
    /\ counter' = Zero
    /\ running' = FALSE
    /\ pending' = pending \cup {TIMER0}
    /\ elapsed' = BAdd(elapsed, ToCompare)
    /\ pendReprog' = FALSE
    /\ pendTie' = FALSE
    /\ fired' = fired + 1
    /\ UNCHANGED <<boot, cc0, events_radio, radioOp, stack, pc, ret, halted,
                   advCount, arg, lastReq, runSpurious, runTie, genuine,
                   firstReq, updated, radioKept>>

\* The radio finishes what it was doing and raises its interrupt.
RadioComplete ==
    /\ radioOp # "off"
    /\ radioOp' = "off"
    /\ events_radio' = radioOp
    /\ pending' = pending \cup {RADIO}
    /\ UNCHANGED <<boot, timerRegs, stack, pc, ret, halted, advCount, history>>

(***************************************************************************)
(* init (interrupts are disabled until it returns).                        *)
(***************************************************************************)
\* Up to and including cfg_timer(&p.device.TIMER0, Some(from_millis(1))).
init_cfg ==
    /\ boot = "reset"
    /\ \E t \in {cfg_timer(Timer, Some(InitTimeout))} :
          /\ cc0' = t.cc0 /\ counter' = t.counter /\ running' = t.running
          /\ events_compare0' = t.event
          /\ halted' = t.panic
          /\ boot' = IF t.panic THEN boot ELSE "init"
          /\ arg' = Some(InitTimeout)
          /\ lastReq' = IF t.panic THEN lastReq ELSE Some(InitTimeout)
          /\ elapsed' = IF t.panic THEN elapsed ELSE Zero
          /\ firstReq' = IF firstReq = NoCall THEN Some(InitTimeout) ELSE firstReq
          /\ radioKept' = FALSE
          /\ fired' = IF t.panic THEN fired ELSE 0
    /\ UNCHANGED <<events_radio, radioOp, pending, stack, pc, ret, advCount,
                   pendReprog, pendTie, runSpurious, runTie, genuine, updated>>

\* The temperature has been read; BASEBAND and BLE_TIMER are handed over and
\* the tasks' interrupts are enabled.  idle then only waits for interrupts.
init_return ==
    /\ boot = "init"
    /\ ~halted
    /\ boot' = "run"
    /\ UNCHANGED <<timerRegs, events_radio, radioOp, pending, stack, pc, ret,
                   halted, advCount, history>>

(***************************************************************************)
(* Interrupt entry.                                                        *)
(***************************************************************************)
Dispatch_during_init(irq) ==
    /\ boot # "reset"
    /\ Selected(irq)
    /\ pending' = pending \ {irq}
    /\ stack' = <<irq>> \o stack
    /\ pc' = [pc EXCEPT ![irq] = "entry"]
    /\ IF irq = TIMER0
       THEN /\ runSpurious' = pendReprog
            /\ runTie' = pendTie
            /\ pendReprog' = FALSE
            /\ pendTie' = FALSE
       ELSE /\ pendTie' = (TIMER0 \in pending)
            /\ UNCHANGED <<runSpurious, runTie, pendReprog>>
    /\ UNCHANGED <<boot, timerRegs, events_radio, radioOp, ret, halted, advCount,
                   arg, lastReq, elapsed, genuine, firstReq, updated, radioKept, fired>>

\* The NVIC enters the selected handler; the tasks' interrupts are enabled
\* only once init has returned.
Dispatch(irq) ==
    /\ boot = "run"
    /\ Selected(irq)
    /\ pending' = pending \ {irq}
    /\ stack' = <<irq>> \o stack
    /\ pc' = [pc EXCEPT ![irq] = "entry"]
    /\ IF irq = TIMER0
       THEN /\ runSpurious' = pendReprog
            /\ runTie' = pendTie
            /\ pendReprog' = FALSE
            /\ pendTie' = FALSE
       ELSE /\ pendTie' = (TIMER0 \in pending)
            /\ UNCHANGED <<runSpurious, runTie, pendReprog>>
    /\ UNCHANGED <<boot, timerRegs, events_radio, radioOp, ret, halted, advCount,
                   arg, lastReq, elapsed, genuine, firstReq, updated, radioKept, fired>>

(***************************************************************************)
(* The handlers.  results is the set Baseband's return value is drawn from.*)
(***************************************************************************)
\* A handler's call of cfg_timer and its return.
Finish(irq, duration) ==
    \E t \in {cfg_timer(Timer, duration)} :
       /\ cc0' = t.cc0 /\ counter' = t.counter /\ running' = t.running
       /\ events_compare0' = t.event
       /\ halted' = t.panic
       /\ arg' = duration
       /\ firstReq' = IF firstReq = NoCall THEN duration ELSE firstReq
       /\ radioKept' = FALSE
       /\ fired' = IF t.panic \/ duration.tag = "None" THEN fired ELSE 0
       /\ lastReq' = IF t.panic THEN lastReq ELSE duration
       /\ elapsed' = IF t.panic \/ duration.tag = "None" THEN elapsed ELSE Zero
       /\ pendReprog' = IF t.panic THEN pendReprog ELSE (TIMER0 \in pending)
       /\ IF t.panic
          THEN UNCHANGED <<stack, pc, pending>>
          ELSE /\ stack' = Tail(stack)
               /\ pc' = [pc EXCEPT ![irq] = "inactive"]
               /\ pending' = IF Line(irq, t.event, events_radio)
                             THEN pending \cup {irq} ELSE pending

\* Baseband.interrupt(): acknowledges the radio's interrupt and may start the
\* radio again (a receive window, a reply); a step that starts nothing leaves
\* the radio as it is.
Baseband_interrupt ==
    /\ events_radio' = "none"
    /\ \E op \in AfterRadioEvent(events_radio) :
          radioOp' = IF op = "off" THEN radioOp ELSE op

\* Baseband.update(): the timer event of the link layer; it advances the
\* advertising event counter and asks the radio to transmit.
Baseband_update ==
    /\ advCount' = (advCount + 1) % AdvMod
    /\ radioOp' = "tx_adv"

\* let ... = res.BASEBAND.interrupt()
radio_interrupt(results) ==
    /\ Executing(RADIO)
    /\ pc[RADIO] = "entry"
    /\ Baseband_interrupt
    /\ \E r \in results : ret' = [ret EXCEPT ![RADIO] = r]
    /\ pc' = [pc EXCEPT ![RADIO] = "cfg"]
    /\ UNCHANGED <<boot, timerRegs, pending, stack, halted, advCount, history>>

radio_cfg_always ==
    /\ Executing(RADIO)
    /\ pc[RADIO] = "cfg"
    /\ Finish(RADIO, ret[RADIO])
    /\ ret' = [ret EXCEPT ![RADIO] = IF halted' THEN @ ELSE None]
    /\ UNCHANGED <<boot, events_radio, radioOp, advCount, pendTie, runSpurious,
                   runTie, genuine, updated>>

\* if let Some(new_timeout) = ... { cfg_timer(.., Some(new_timeout)) }
radio_cfg ==
    /\ Executing(RADIO)
    /\ pc[RADIO] = "cfg"
    /\ IF ret[RADIO].tag = "Some"
       THEN Finish(RADIO, ret[RADIO])
       ELSE /\ stack' = Tail(stack)
            /\ pc' = [pc EXCEPT ![RADIO] = "inactive"]
            /\ pending' = IF Line(RADIO, events_compare0, events_radio)
                          THEN pending \cup {RADIO} ELSE pending
            /\ radioKept' = TRUE
            /\ UNCHANGED <<timerRegs, halted, arg, lastReq, elapsed, pendReprog,
                           firstReq, fired>>
    /\ ret' = [ret EXCEPT ![RADIO] = IF halted' THEN @ ELSE None]
    /\ UNCHANGED <<boot, events_radio, radioOp, advCount, pendTie, runSpurious,
                   runTie, genuine, updated>>

\* let maybe_next_update = res.BASEBAND.update()
radio_timer_update(results) ==
    /\ Executing(TIMER0)
    /\ pc[TIMER0] = "entry"
    /\ Baseband_update
    /\ genuine' = IF runSpurious THEN genuine ELSE (genuine + 1) % AdvMod
    /\ updated' = TRUE
    /\ \E r \in results : ret' = [ret EXCEPT ![TIMER0] = r]
    /\ pc' = [pc EXCEPT ![TIMER0] = "cfg"]
    /\ UNCHANGED <<boot, timerRegs, events_radio, pending, stack, halted, arg,
                   lastReq, elapsed, pendReprog, pendTie, runSpurious, runTie,
                   firstReq, radioKept, fired>>

radio_timer_cfg_only_some ==
    /\ Executing(TIMER0)
    /\ pc[TIMER0] = "cfg"
    /\ IF ret[TIMER0].tag = "Some"
       THEN Finish(TIMER0, ret[TIMER0])
       ELSE /\ stack' = Tail(stack)
            /\ pc' = [pc EXCEPT ![TIMER0] = "inactive"]
            /\ pending' = IF Line(TIMER0, events_compare0, events_radio)
                          THEN pending \cup {TIMER0} ELSE pending
            /\ UNCHANGED <<timerRegs, halted, arg, lastReq, elapsed, pendReprog,
                           firstReq, radioKept, fired>>
    /\ ret' = [ret EXCEPT ![TIMER0] = IF halted' THEN @ ELSE None]
    /\ UNCHANGED <<boot, events_radio, radioOp, advCount, pendTie, runSpurious,
                   runTie, genuine, updated>>

\* cfg_timer(&res.BLE_TIMER, maybe_next_update)
radio_timer_cfg ==
    /\ Executing(TIMER0)
    /\ pc[TIMER0] = "cfg"
    /\ Finish(TIMER0, ret[TIMER0])
    /\ ret' = [ret EXCEPT ![TIMER0] = IF halted' THEN @ ELSE None]
    /\ UNCHANGED <<boot, events_radio, radioOp, advCount, pendTie, runSpurious,
                   runTie, genuine, updated>>

(***************************************************************************)
(* Specifications.                                                         *)
(***************************************************************************)
Hardware == Tick \/ Compare \/ RadioComplete

\* Baseband known only by its type.
Next ==
    \/ Hardware
    \/ init_cfg
    \/ init_return
    \/ \E irq \in IRQs : Dispatch(irq)
    \/ radio_interrupt(AnyResult)
    \/ radio_cfg
    \/ radio_timer_update(AnyResult)
    \/ radio_timer_cfg

Spec == Init /\ [][Next]_vars

\* Baseband with the link layer of the design: while advertising, update()
\* returns the interval, interrupt() a receive window or nothing.
NextLL ==
    \/ Hardware
    \/ init_cfg
    \/ init_return
    \/ \E irq \in IRQs : Dispatch(irq)
    \/ radio_interrupt(InterruptResult)
    \/ radio_cfg
    \/ radio_timer_update(UpdateResult)
    \/ radio_timer_cfg

SpecLL == Init /\ [][NextLL]_vars

\* The timer keeps counting, the NVIC dispatches what is queued and the
\* processor keeps executing; the radio need not ever complete.
FairLL ==
    /\ WF_vars(Compare)
    /\ WF_vars(init_cfg) /\ WF_vars(init_return)
    /\ \A irq \in IRQs : WF_vars(Dispatch(irq))
    /\ WF_vars(radio_interrupt(InterruptResult)) /\ WF_vars(radio_cfg)
    /\ WF_vars(radio_timer_update(UpdateResult)) /\ WF_vars(radio_timer_cfg)

SpecLLFair == Init /\ [][NextLL]_vars /\ FairLL

\* The same progress with Baseband known only by its type; init's blocking
\* read of the temperature completes.
Fair ==
    /\ WF_vars(Compare)
    /\ WF_vars(init_cfg) /\ WF_vars(init_return)
    /\ \A irq \in IRQs : WF_vars(Dispatch(irq))
    /\ WF_vars(radio_interrupt(AnyResult)) /\ WF_vars(radio_cfg)
    /\ WF_vars(radio_timer_update(AnyResult)) /\ WF_vars(radio_timer_cfg)

SpecFair == Init /\ [][Next]_vars /\ Fair

(***************************************************************************)
(* cfg_timer on its own: the TIMER0 handler is about to call it with any   *)
(* Option<Duration>, on a timer that an earlier call has programmed and    *)
(* that is still counting or has expired.                                  *)
(***************************************************************************)
CfgSecs == {Zero, Small(1), Small(4292), Small(4293), Small(4294), Small(4295), U32_MAX}
CfgNanos == {0, 999, 1000, 967295000, 967295999, 967296000, 999999999}
CfgDurations == {Dur(q, sec, n) : q \in {0, 1}, sec \in CfgSecs, n \in CfgNanos}

InitCfg ==
    /\ boot = "run"
    /\ \E p \in {InitTimeout, RxWindow} :
          /\ cc0 = Micros(p)
          /\ arg = Some(p) /\ lastReq = Some(p)
    /\ firstReq = Some(InitTimeout) /\ updated = TRUE /\ radioKept = FALSE
    /\ \/ /\ running = TRUE /\ events_compare0 = FALSE
          /\ counter \in {Zero, Small(1), Small(MaxCount)}
          /\ elapsed = counter /\ fired = 0
       \/ /\ running = FALSE /\ events_compare0 \in BOOLEAN
          /\ counter = Zero
          /\ elapsed = cc0 /\ fired = 1
    /\ events_radio = "none" /\ radioOp = "off"
    /\ pending = {} /\ stack = <<TIMER0>>
    /\ pc = [i \in IRQs |-> IF i = TIMER0 THEN "cfg" ELSE "inactive"]
    /\ \E o \in {None} \cup {Some(d) : d \in CfgDurations} :
          ret = [i \in IRQs |-> IF i = TIMER0 THEN o ELSE None]
    /\ halted = FALSE
    /\ advCount = 0
    /\ pendReprog = FALSE /\ pendTie = FALSE
    /\ runSpurious = FALSE /\ runTie = FALSE /\ genuine = 0

NextCfg == radio_timer_cfg

SpecCfg == InitCfg /\ [][NextCfg]_vars

(***************************************************************************)
(* Properties.                                                             *)
(***************************************************************************)
\* secs * 1_000_000 + subsec_micros as a number, for seconds below 2^32 / 2.
TrueMicros(d) == B((d.secs_lo.hi * Mega) + d.secs_lo.lo, subsec_micros(d))

Active(irq) == pc[irq] # "inactive"

\* The compare event has been raised since the latest cfg_timer(Some(_)).
Expired == ~running /\ lastReq.tag = "Some"

\* C1 (as claimed): once a later deadline has been installed by cfg_timer, the
\* TIMER0 handler is never run for the compare event of an earlier deadline.
C1_NoStaleHandlerRun ==
    ~(pc[TIMER0] = "entry" /\ runSpurious /\ lastReq.tag = "Some")

\* C1 (amended): only the most recently installed deadline governs the timer's
\* next compare event: the event is raised exactly D microseconds after the
\* latest cfg_timer(Some(D)), whatever was pending before.
C1_CompareAtLatestDeadline ==
    Expired => elapsed = TrueMicros(lastReq.val)

\* C1 witness: the handler runs for a superseded deadline while the deadline
\* that superseded it has itself expired.
C1_Witness ==
    /\ pc[TIMER0] = "entry" /\ runSpurious
    /\ Expired /\ events_compare0 /\ TIMER0 \in pending

\* C2: at most one of the two handler bodies is executing; a handler between
\* its Baseband call and its cfg_timer call is neither preempted nor re-entered.
C2_MutualExclusion ==
    /\ Len(stack) <= 1
    /\ Cardinality({irq \in IRQs : Active(irq)}) <= 1
    /\ \A irq \in IRQs : Active(irq) <=> stack = <<irq>>

\* C2 witness: the radio interrupt arrives while the TIMER0 handler is between
\* update() and cfg_timer, and waits.
C2_Witness ==
    pc[TIMER0] = "cfg" /\ RADIO \in pending /\ TIMER0 \in pending /\ ~halted

MaxMicros == Dur(0, Small(4294), 967295000)       \* 2^32 - 1 microseconds
OverMaxMicros == Dur(0, Small(4294), 967296000)   \* 2^32 microseconds

\* C3: a duration of 2^32 - 1 microseconds passes the overflow check and is
\* programmed; one of 2^32 microseconds fails it.
C3_OverflowBoundary ==
    /\ arg = Some(MaxMicros) => (~halted /\ running /\ cc0 = U32_MAX)
    /\ arg = Some(OverMaxMicros) => halted

\* C4: whenever cfg_timer writes CC[0], the value is secs * 1_000_000 +
\* subsec_micros itself: the seconds were not truncated to 32 bits and the
\* sum did not wrap at 2^32.
C4_NoWraparound ==
    (arg.tag = "Some" /\ ~halted) =>
        /\ arg.val.secs_hi = 0
        /\ arg.val.secs_lo.hi = 0
        /\ cc0 = B(arg.val.secs_lo.lo, subsec_micros(arg.val))
        /\ BLe(cc0, U32_MAX)

\* C4 witness: the longest duration with 967295 sub-second microseconds that
\* cfg_timer accepts has been programmed.
C4_Witness ==
    ~halted /\ arg = Some(Dur(0, Small(4293), 967295000)) /\ cc0 = B(4293, 967295)

\* C5: when cfg_timer(Some(duration)) fails its overflow check no timer
\* register is written, the system halts, and no handler runs afterwards.
C5_OverflowFatal ==
    /\ [](halted <=> (arg.tag = "Some" /\ ~OverflowCheck(arg.val)))
    /\ [][(~halted /\ halted') => (timerRegs' = timerRegs /\ pending' = pending)]_vars
    /\ [][halted => (halted' /\ stack' = stack /\ pc' = pc /\ ret' = ret
                     /\ cc0' = cc0 /\ advCount' = advCount
                     /\ (running' => running))]_vars

\* C5 witness: halted in a handler, with both interrupts queued and not served.
C5_Witness ==
    halted /\ stack # <<>> /\ pending = IRQs /\ running

\* C6 (as claimed): after cfg_timer(None) the timer is stopped, cleared and
\* acknowledged, and the TIMER0 handler is not invoked until a later
\* cfg_timer(Some(_)).
C6_NoGhostFiring ==
    (boot = "run" /\ lastReq = None) =>
        /\ ~running /\ counter = Zero /\ ~events_compare0
        /\ pc[TIMER0] # "entry"

\* C6 (amended): after cfg_timer(None) the timer is stopped, cleared and
\* acknowledged and raises no compare event until a later cfg_timer(Some(_));
\* only an interrupt queued before the call is still served, once.
C6_StoppedNoNewEvent ==
    /\ []((boot = "run" /\ lastReq = None) =>
            /\ ~running /\ counter = Zero /\ ~events_compare0
            /\ (TIMER0 \in pending => pendReprog)
            /\ (pc[TIMER0] = "entry" => (runSpurious /\ TIMER0 \notin pending)))
    /\ [][(lastReq = None /\ lastReq' = None /\ TIMER0 \notin pending)
             => TIMER0 \notin pending']_vars

\* C6 witness: the TIMER0 handler has been entered after cfg_timer(None) and
\* before any cfg_timer(Some(_)).
C6_Witness ==
    boot = "run" /\ lastReq = None /\ pc[TIMER0] = "entry"

Quiet == boot = "run" /\ ~Active(TIMER0) /\ TIMER0 \notin pending

C9_SingleTimer ==
    /\ [](running => (lastReq.tag = "Some" /\ cc0 = TrueMicros(lastReq.val)
                      /\ BLe(counter, cc0)))
    /\ [][(cc0' # cc0 \/ (running' /\ ~running) \/ lastReq' # lastReq)
            => (boot = "reset" \/ \E irq \in IRQs :
                   pc[irq] = "cfg" /\ pc'[irq] = "inactive")]_vars
    /\ [][(arg' # arg /\ arg'.tag = "Some" /\ ~halted')
            => (running' /\ counter' = Zero /\ lastReq' = arg'
                /\ cc0' = TrueMicros(arg'.val))]_vars

\* C9 witness: the RADIO handler's deadline has replaced a deadline that was
\* still running.
C9_Witness ==
    running /\ lastReq = Some(ShortTimeout) /\ arg = lastReq /\ elapsed = Small(1)
            /\ counter = Small(1) /\ pendTie

\* C10 (as claimed): with both interrupts pending the RADIO handler runs
\* first, and the TIMER0 handler does not afterwards run update() for the
\* deadline that was pending when the radio event was handled and superseded.
C10_TieSupersedes ==
    /\ [](~(pc[TIMER0] = "entry" /\ runTie /\ runSpurious))
    /\ [][(pending = IRQs /\ stack = <<>> /\ stack' # <<>>)
            => stack' = <<RADIO>>]_vars

\* C10 (amended): with both interrupts pending the RADIO handler runs first;
\* the queued TIMER0 interrupt stays queued through the RADIO handler, also
\* when that handler installs a new deadline, and is served after it.
C10_RadioFirstTimerKept ==
    /\ [][(pending = IRQs /\ stack = <<>> /\ stack' # <<>>)
            => (stack' = <<RADIO>> /\ TIMER0 \in pending')]_vars
    /\ [][(Active(RADIO) /\ TIMER0 \in pending) => TIMER0 \in pending']_vars

\* C10 witness: the TIMER0 handler runs for the deadline that was pending at
\* the tie and that the RADIO handler has superseded.
C10_Witness ==
    pc[TIMER0] = "entry" /\ runTie /\ runSpurious /\ lastReq.tag = "Some"

\* C11 (as claimed): the first deadline programmed into the timer after
\* start_advertise(interval) is the interval, 100 ms, and the first update()
\* call is made for it.
C11_FirstWakeupAfterInterval ==
    /\ firstReq # NoCall => firstReq = Some(from_millis(100))
    /\ (pc[TIMER0] = "entry" /\ ~updated) => lastReq = Some(from_millis(100))

\* C11 (amended): the first deadline programmed into the timer is init's own
\* 1 ms, whatever interval start_advertise was given, and the first update()
\* call is made when that 1 ms has elapsed and init has returned; no other
\* deadline is programmed before it.
C11_FirstWakeupAfterInitTimeout ==
    /\ boot # "reset" => firstReq = Some(from_millis(1))
    /\ ~updated =>
          /\ lastReq \in {None, Some(from_millis(1))}
          /\ (pc[TIMER0] = "entry" =>
                 (boot = "run" /\ Expired /\ elapsed = Small(1000)))

\* C11 witness: the TIMER0 handler is entered for the first time, 1 ms after
\* init programmed the timer.
C11_Witness ==
    /\ pc[TIMER0] = "entry" /\ ~updated
    /\ firstReq = Some(from_millis(1)) /\ lastReq = firstReq /\ elapsed = Small(1000)

C13_TimerHandlerFeedsResult ==
    /\ [][(pc[TIMER0] = "entry" /\ pc'[TIMER0] # "entry")
            => (pc'[TIMER0] = "cfg" /\ updated' /\ timerRegs' = timerRegs
                /\ advCount' = (advCount + 1) % AdvMod)]_vars
    /\ [][advCount' # advCount => (pc[TIMER0] = "entry" /\ pc'[TIMER0] = "cfg")]_vars
    /\ [][pc[TIMER0] = "cfg"
            => (pc'[TIMER0] = "inactive" \/ ret'[TIMER0] = ret[TIMER0])]_vars
    /\ [][(pc[TIMER0] = "cfg" /\ ~halted /\ (halted' \/ pc'[TIMER0] = "inactive"))
            => arg' = ret[TIMER0]]_vars
    /\ [][(pc[TIMER0] = "cfg" /\ pc'[TIMER0] = "inactive")
            => /\ lastReq' = ret[TIMER0]
               /\ counter' = Zero /\ ~events_compare0'
               /\ IF ret[TIMER0].tag = "Some"
                  THEN running' /\ cc0' = TrueMicros(ret[TIMER0].val)
                  ELSE ~running' /\ cc0' = cc0]_vars

\* C13 witness: the TIMER0 handler has returned after update() gave None:
\* the timer is stopped, cleared and acknowledged.
C13_Witness ==
    /\ boot = "run" /\ updated /\ ~Active(TIMER0) /\ lastReq = None /\ arg = None
    /\ ~running /\ counter = Zero /\ ~events_compare0 /\ TIMER0 \notin pending

\* C14: the RADIO handler reprograms the timer only on Some.  Baseband's
\* interrupt() leaves the timer alone; when it returned None the handler
\* returns with every timer register as it was, and the deadline that was
\* pending expires at its original time; when it returned Some(d) the timer
\* is restarted from zero with deadline d.
C14_RadioReprogramsOnlyOnSome ==
    /\ [][(pc[RADIO] = "entry" /\ pc'[RADIO] # "entry")
            => (pc'[RADIO] = "cfg" /\ timerRegs' = timerRegs)]_vars
    /\ [][(pc[RADIO] = "cfg" /\ pc'[RADIO] = "inactive")
            => IF ret[RADIO].tag = "None"
               THEN /\ timerRegs' = timerRegs
                    /\ arg' = arg /\ lastReq' = lastReq /\ elapsed' = elapsed
               ELSE /\ arg' = ret[RADIO] /\ lastReq' = ret[RADIO]
                    /\ running' /\ counter' = Zero /\ ~events_compare0'
                    /\ cc0' = TrueMicros(ret[RADIO].val) /\ elapsed' = Zero]_vars
    /\ []((radioKept /\ Expired) => elapsed = TrueMicros(lastReq.val))

\* C14 witness: the RADIO handler has returned on None while the advertising
\* interval was counting, and it is counting still.
C14_Witness ==
    /\ radioKept /\ ~Active(RADIO) /\ running /\ counter = Small(1)
    /\ lastReq = Some(AdvInterval) /\ elapsed = Small(1)

\* C15: the timer is one-shot.  A compare event stops the timer with its
\* counter at zero; a stopped timer stays stopped and at zero until a
\* cfg_timer(Some(_)) starts it, so each cfg_timer(Some(d)) is followed by at
\* most one compare event.
C15_OneShot ==
    /\ [](fired <= 1)
    /\ [](fired = 1 => (~running /\ counter = Zero))
    /\ [](~running => counter = Zero)
    /\ [][fired' > fired => (running /\ ~running' /\ counter' = Zero
                               /\ events_compare0' /\ TIMER0 \in pending')]_vars
    /\ [][(~running /\ running')
            => (arg'.tag = "Some" /\ fired' = 0 /\ counter' = Zero
                /\ (boot = "reset" \/ \E irq \in IRQs :
                       pc[irq] = "cfg" /\ pc'[irq] = "inactive"))]_vars

\* C15 witness: the deadline has expired once, its interrupt has been taken,
\* and the timer stays stopped while the handler has not yet reprogrammed it.
C15_Witness ==
    /\ fired = 1 /\ ~running /\ counter = Zero /\ events_compare0
    /\ pc[TIMER0] = "cfg" /\ TIMER0 \notin pending /\ lastReq = Some(AdvInterval)

\* C16: no handler runs before init has returned, although the timer is
\* started in init; a compare event raised while init is still running stays
\* queued, and the TIMER0 handler runs for it, calling update(), once init
\* has returned.
C16_BootOrdering ==
    /\ [](boot # "run" => (stack = <<>> /\ ~updated /\ advCount = 0
                           /\ \A irq \in IRQs : pc[irq] = "inactive"))
    /\ [][(boot = "init" /\ TIMER0 \in pending) => TIMER0 \in pending']_vars
    /\ ((boot = "init" /\ TIMER0 \in pending)
           ~> (boot = "run" /\ pc[TIMER0] = "cfg" /\ updated))

\* C16 witness: the 1 ms deadline expired while init was blocking on the
\* temperature, and the TIMER0 handler has been entered after init's return.
C16_Witness ==
    /\ boot = "run" /\ pc[TIMER0] = "entry" /\ ~updated /\ ~runSpurious
    /\ fired = 1 /\ events_compare0 /\ lastReq = Some(InitTimeout)

====
